---- MODULE Spec2Model ----
(***************************************************************************)
(* Model of the S3 restore agent (src/src/main.go).                        *)
(*                                                                         *)
(* main creates one ledger row (SQLite table restore_requests), launches   *)
(* one goroutine restoreObjectsInPath per input path, admitted through a   *)
(* buffered channel of capacity 5, joins them with a sync.WaitGroup and    *)
(* reports.  Each goroutine pages through the object listing of its path,  *)
(* restores the objects that are not STANDARD and then calls               *)
(* updateProcessedPaths, a SELECT / UPDATE / DELETE sequence on the row    *)
(* that runs on its own database connection with no transaction.          *)
(*                                                                         *)
(* A step of the model is one access to state shared between goroutines    *)
(* (the gate channel, the WaitGroup, the ledger row, the failedPaths       *)
(* slice) or one call of an external collaborator (object store, Slack),   *)
(* whose outcome the environment chooses.  A call of sendSlackNotification *)
(* is one step, apart from the statement before it: the global             *)
(* messageTimestamp it reads before the post and sets after it is kept     *)
(* only as empty or set, and it is set exactly when some post has          *)
(* succeeded, in whatever order concurrent posts read and write it.        *)
(***************************************************************************)
EXTENDS Integers, Sequences, FiniteSets, TLC

VARIABLES
    bucketPathsList,   \* main: the input paths, in order (main.go:477)
    preexisting,       \* whether a row with the request id exists before create
    mainpc,            \* position of main
    launched,          \* number of goroutines started by main's loop
    row,               \* the ledger row of the request id, or NoRow
    ch,                \* number of tokens in the gate channel (main.go:486)
    wg,                \* the WaitGroup counter (main.go:485)
    failedPaths,       \* main's failedPaths slice, shared with every goroutine
    messageTimestamp,  \* the global Slack message timestamp (main.go:56)
    pc,                \* position of each restoreObjectsInPath goroutine
    loc,               \* locals of each goroutine
    store,             \* the object store: what its listings can still return
    reported,          \* history: goroutines that reported a path-level failure
    result,            \* history: what updateProcessedPaths returned to each goroutine
    completed,         \* history: number of "Restore process completed" reports
    calls,             \* history: the ledger calls made by a sequential client
    recording,         \* whether this run records the three histories that follow
    cause,             \* history: why each goroutine reported a path-level failure
    lastPost,          \* history: the Slack post attempted by the last step, if any
    lastErr,           \* history: the error restoreObject returned in the last step, if any
    creds,             \* credsProvider.creds: the credentials held (main.go:39)
    mu,                \* credsProvider.mu: the RWMutex (main.go:40)
    renew,             \* the renewCredentials goroutine (main.go:431)
    retr,              \* each goroutine's call of credsProvider.Retrieve in progress
    latest             \* history: the argument of the last completed UpdateCredentials

credVars == <<creds, mu, renew, retr, latest>>

vars == <<bucketPathsList, preexisting, mainpc, launched, row, ch, wg, failedPaths,
          messageTimestamp, pc, loc, store, reported, result, completed, calls,
          recording, cause, lastPost, lastErr, creds, mu, renew, retr, latest>>

(***************************************************************************)
(* Bounds of the model.                                                    *)
(***************************************************************************)
MaxPaths == 2      \* longest input path list of the concurrent program
MaxObjs == 1       \* most objects the listings of one run return, over any number of pages
MaxLen == 3        \* longest input path list of the sequential ledger client
MaxCalls == 3      \* most markProcessed calls of the sequential ledger client
GateExtra == 1     \* goroutines beyond the gate capacity in the gate scenario
MaxTicks == 2      \* most ticks of the credential renewal ticker in one run
MaxPathObjs == 2   \* most objects the listing of the path returns in a one-path run

(***************************************************************************)
(* Program constants.                                                      *)
(***************************************************************************)
GateCapacity == 5

STANDARD == "STANDARD"

\* The storage class the agent is described to restore objects from.
Deprecated == "REDUCED_REDUNDANCY"
Tiers == {"STANDARD", "REDUCED_REDUNDANCY", "GLACIER"}

\* Paths are strings, modelled as sequences of characters.  A command-line
\* argument is a sequence of bytes: InvalidByte stands for a byte that is not
\* part of a valid UTF-8 sequence (0xff), Replacement for U+FFFD.
InvalidByte == "xFF"
Replacement == "uFFFD"

PathAX == <<"a", "/", "x">>
PathAY == <<"a", "/", "y">>
PathBad == <<"b", "a", "d">>
PathRaw == <<"a", "/", InvalidByte>>

\* The paths of the runs of several goroutines.
PathUniverse == {PathAX, PathAY, PathBad}

\* The paths of the one-path runs and of the sequential ledger client.
AllPaths == PathUniverse \cup {PathRaw}

\* The state of the table with no row for the request id.
NoRow == [absent |-> TRUE]

SeqsUpTo(S, n) == UNION {[1..k -> S] : k \in 0..n}

(***************************************************************************)
(* Pure functions of the program.                                          *)
(***************************************************************************)

\* strings.Index(s, "/"): the first position of the separator, 0 when absent.
RECURSIVE IndexSep(_, _)
IndexSep(s, k) ==
    IF k > Len(s) THEN 0
    ELSE IF s[k] = "/" THEN k
    ELSE IndexSep(s, k + 1)

\* Variant of SplitN2: a path with no separator is a bucket with an empty prefix.
SplitN2_EmptyPrefix(s) ==
    LET k == IndexSep(s, 1) IN
    IF k = 0 THEN <<s, <<>>>>
    ELSE <<SubSeq(s, 1, k - 1), SubSeq(s, k + 1, Len(s))>>

\* strings.SplitN(bucketPath, "/", 2)
SplitN2(s) ==
    LET k == IndexSep(s, 1) IN
    IF k = 0 THEN <<s>>
    ELSE <<SubSeq(s, 1, k - 1), SubSeq(s, k + 1, Len(s))>>

\* The string as json.Marshal encodes it: coerced to valid UTF-8, each
\* invalid byte replaced by U+FFFD.
ToValidUTF8(str) ==
    [k \in 1..Len(str) |-> IF str[k] = InvalidByte THEN Replacement ELSE str[k]]

\* json.Marshal of a []string and json.Unmarshal into a []string: the column
\* holds the JSON text of an array, kept here as a tagged value whose items
\* are the strings the text decodes to.
jsonMarshal(s) == [json |-> "array", items |-> [k \in 1..Len(s) |-> ToValidUTF8(s[k])]]
jsonUnmarshal(t) == IF t.json = "array" THEN t.items ELSE <<>>

\* The first index of p in bp, 0 when absent (the loop of main.go:196).
RECURSIVE FirstMatch(_, _, _)
FirstMatch(bp, p, k) ==
    IF k > Len(bp) THEN 0
    ELSE IF bp[k] = p THEN k
    ELSE FirstMatch(bp, p, k + 1)

\* for i, path := range bp { if path == processedPath { remove i; break } }
RemoveFirst(bp, p) ==
    LET k == FirstMatch(bp, p, 1) IN
    IF k = 0 THEN bp
    ELSE SubSeq(bp, 1, k - 1) \o SubSeq(bp, k + 1, Len(bp))

\* pp = append(pp, processedPath)
AppendProcessed(pp, p) == Append(pp, p)

\* The row inserted by createDBAndRecord.
NewRow(paths) ==
    [bucket_paths |-> jsonMarshal(paths), processed_paths |-> jsonMarshal(<<>>)]

\* The row as the UPDATE statement leaves it: no row matches, nothing changes.
UpdatedRow(r, bp, pp) ==
    IF r = NoRow THEN NoRow
    ELSE [bucket_paths |-> jsonMarshal(bp), processed_paths |-> jsonMarshal(pp)]

Pending(r) == jsonUnmarshal(r.bucket_paths)
Processed(r) == jsonUnmarshal(r.processed_paths)

\* sendSlackNotification: a successful first post sets the global timestamp.
PostedTimestamp(ts, ok) == IF ok /\ ts = "" THEN "ts" ELSE ts

\* No restoreObject call returned an error.
NoErr == [who |-> 0, what |-> "none", found |-> ""]

\* No Slack post was attempted.
NoPost == [kind |-> "none", ok |-> FALSE, lists |-> <<>>]

\* What a step writes to a history variable: the entry in a run that
\* records its history, and the empty entry otherwise.
Recorded(entry, none) == IF recording THEN entry ELSE none

\* Variant of Post: the caller does not survive a failed post (a log.Fatalf
\* where the code has log.Printf).
Post_FatalOnError(kind, lists) ==
    /\ messageTimestamp' = PostedTimestamp(messageTimestamp, TRUE)
    /\ lastPost' = Recorded([kind |-> kind, ok |-> TRUE, lists |-> lists], NoPost)
    /\ lastErr' = NoErr

\* if err := sendSlackNotification(...); err != nil { log.Printf(...) }: a post
\* of the given kind listing the given path lists is attempted, it succeeds or
\* fails, and the caller goes on either way.
Post(kind, lists) ==
    \E ok \in BOOLEAN :
        /\ messageTimestamp' = PostedTimestamp(messageTimestamp, ok)
        /\ lastPost' = Recorded([kind |-> kind, ok |-> ok, lists |-> lists], NoPost)
        /\ lastErr' = NoErr

\* A step that attempts no Slack post and in which no restoreObject returns.
Quiet == lastPost' = NoPost /\ lastErr' = NoErr

(***************************************************************************)
(* Goroutines and their locals.                                            *)
(***************************************************************************)
Restorers == 1..Len(bucketPathsList)

\* page: the number of objects of the current page not yet visited;
\* obj: the storage class the listing gave for the object being restored;
\* more: paginator.HasMorePages();
\* bp, pp: the lists updateProcessedPaths computed from its SELECT;
\* snap: the failedPaths slice header read by an append in progress.
LocInit == [page |-> 0, obj |-> "", more |-> TRUE,
            bp |-> <<>>, pp |-> <<>>, snap |-> <<>>]

\* Positions between the acquisition of a gate slot and the deferred release.
InFlightPcs == {"split", "config", "list", "object", "copy", "head",
                "select", "update", "updatePost", "delete", "deletePost",
                "append", "appendWrite", "return"}

\* Positions at which the goroutine does per-path work.
WorkPcs == InFlightPcs \ {"return"}

\* Positions at which the next step is a call of the S3 client (NextPage,
\* CopyObject, HeadObject), which signs its request with the credentials of
\* credsProvider.
StoreCallPcs == {"list", "copy", "head"}

\* Positions at which the next step is a statement on the ledger table.
LedgerCallPcs == {"select", "update", "delete"}

\* The goroutine is inside credsProvider.Retrieve.
Retrieving(i) == retr[i].pc # "idle"

\* Variant of CanAcquire: the send never blocks (an unbounded channel).
CanAcquire_Unbounded(n) == TRUE

\* ch <- struct{}{} on a channel of capacity 5 proceeds when the buffer has room.
CanAcquire(n) == n < GateCapacity

\* Variant of Released: the return leaves the token in the channel.
Released_Leak(n) == n

\* defer func() { <-ch }(): one token leaves the channel.
Released(n) == n - 1

\* Variant of WaitDone: the wait returns with one goroutine still running.
WaitDone_Early(w) == w <= 1

\* wg.Wait() returns when the counter is zero.
WaitDone(w) == w = 0

(***************************************************************************)
(* main (main.go:476-509).                                                 *)
(***************************************************************************)

\* Variant of MainCreate: the error of the INSERT on an existing row is
\* ignored and main goes on to launch.
MainCreate_IgnoreExisting ==
    /\ mainpc = "create"
    /\ \/ /\ row' = IF row = NoRow THEN NewRow(bucketPathsList) ELSE row
          /\ Post("created", <<bucketPathsList>>)
          /\ mainpc' = "launch"
       \/ /\ mainpc' = "fatal"
          /\ Quiet
          /\ UNCHANGED <<row, messageTimestamp>>
    /\ UNCHANGED <<bucketPathsList, preexisting, launched, ch, wg, failedPaths,
                   pc, loc, store, reported, result, completed, calls, cause,
                   credVars, recording>>

\* createDBAndRecord as main calls it.  The INSERT fails when a row with the
\* request id exists, and any statement may fail in the database; main then
\* ends with log.Fatalf.  The Slack post after the INSERT may fail and is
\* only logged.
MainCreate ==
    /\ mainpc = "create"
    /\ \/ /\ row = NoRow
          /\ row' = NewRow(bucketPathsList)
          /\ Post("created", <<bucketPathsList>>)
          /\ mainpc' = "launch"
       \/ /\ mainpc' = "fatal"
          /\ Quiet
          /\ UNCHANGED <<row, messageTimestamp>>
    /\ UNCHANGED <<bucketPathsList, preexisting, launched, ch, wg, failedPaths,
                   pc, loc, store, reported, result, completed, calls, cause,
                   credVars, recording>>

\* One iteration of the launch loop: wg.Add(1); go restoreObjectsInPath(...).
Launch ==
    /\ mainpc = "launch"
    /\ launched < Len(bucketPathsList)
    /\ wg' = wg + 1
    /\ launched' = launched + 1
    /\ pc' = [pc EXCEPT ![launched + 1] = "acquire"]
    /\ mainpc' = IF launched + 1 = Len(bucketPathsList) THEN "wait" ELSE "launch"
    /\ Quiet
    /\ UNCHANGED <<bucketPathsList, preexisting, row, ch, failedPaths,
                   messageTimestamp, loc, store, reported, result, completed, calls,
                   cause,
                   credVars, recording>>

\* wg.Wait()
Wait ==
    /\ mainpc = "wait"
    /\ WaitDone(wg)
    /\ mainpc' = "report"
    /\ Quiet
    /\ UNCHANGED <<bucketPathsList, preexisting, launched, row, ch, wg, failedPaths,
                   messageTimestamp, pc, loc, store, reported, result, completed, calls,
                   cause,
                   credVars, recording>>

\* The failed-paths notification when failedPaths is not empty, which names
\* the paths as json.Marshal writes them (main.go:496), then the "Restore
\* process completed" report.
Report ==
    /\ mainpc = "report"
    /\ IF Len(failedPaths) > 0
       THEN Post("failed", <<jsonMarshal(failedPaths).items>>)
       ELSE Quiet /\ UNCHANGED messageTimestamp
    /\ completed' = completed + 1
    /\ mainpc' = "done"
    /\ UNCHANGED <<bucketPathsList, preexisting, launched, row, ch, wg, failedPaths,
                   pc, loc, store, reported, result, calls, cause,
                   credVars, recording>>

(***************************************************************************)
(* restoreObjectsInPath (main.go:327-388).                                 *)
(***************************************************************************)

\* The goroutine goes on at position p with its locals l.
Goto(i, p, l) ==
    /\ pc' = [pc EXCEPT ![i] = p]
    /\ loc' = [loc EXCEPT ![i] = l]

\* A path-level failure: the goroutine is about to append its path to failedPaths.
Fail(i) ==
    /\ Goto(i, "append", LocInit)
    /\ reported' = reported \cup {i}

\* The reason of the path-level failure of goroutine i.
Because(i, why) == cause' = Recorded([cause EXCEPT ![i] = why], cause)

\* ch <- struct{}{}
Acquire(i) ==
    /\ pc[i] = "acquire"
    /\ CanAcquire(ch)
    /\ ch' = ch + 1
    /\ Goto(i, "split", loc[i])
    /\ Quiet
    /\ UNCHANGED <<bucketPathsList, preexisting, mainpc, launched, row, wg, failedPaths,
                   messageTimestamp, store, reported, result, completed, calls,
                   cause,
                   credVars, recording>>

\* parts := strings.SplitN(bucketPath, "/", 2); if len(parts) < 2 { fail }
SplitPath(i) ==
    /\ pc[i] = "split"
    /\ IF Len(SplitN2(bucketPathsList[i])) < 2
       THEN Fail(i) /\ Because(i, "malformed")
       ELSE Goto(i, "config", loc[i]) /\ UNCHANGED <<reported, cause>>
    /\ Quiet
    /\ UNCHANGED <<bucketPathsList, preexisting, mainpc, launched, row, ch, wg, failedPaths,
                   messageTimestamp, store, result, completed, calls,
                   credVars, recording>>

\* config.LoadDefaultConfig: succeeds or fails.
LoadConfig(i) ==
    /\ pc[i] = "config"
    /\ \/ Goto(i, "list", loc[i]) /\ UNCHANGED <<reported, cause>>
       \/ Fail(i) /\ Because(i, "config")
    /\ Quiet
    /\ UNCHANGED <<bucketPathsList, preexisting, mainpc, launched, row, ch, wg, failedPaths,
                   messageTimestamp, store, result, completed, calls,
                   credVars, recording>>

\* The head of the page loop: paginator.HasMorePages(), then NextPage, which
\* fails, or returns a page of objects and whether another page follows.
NextPage(i) ==
    /\ pc[i] = "list"
    /\ ~Retrieving(i)
    /\ \/ /\ ~loc[i].more
          /\ Goto(i, "select", LocInit)
          /\ UNCHANGED <<store, reported, cause>>
       \/ /\ loc[i].more
          /\ \E n \in 0..store.objs, m \in BOOLEAN :
                /\ store' = [objs |-> store.objs - n]
                /\ Goto(i, "object", [loc[i] EXCEPT !.page = n, !.more = m])
          /\ UNCHANGED <<reported, cause>>
       \/ /\ loc[i].more
          /\ Fail(i)
          /\ Because(i, "listing")
          /\ UNCHANGED store
    /\ Quiet
    /\ UNCHANGED <<bucketPathsList, preexisting, mainpc, launched, row, ch, wg, failedPaths,
                   messageTimestamp, result, completed, calls,
                   credVars, recording>>

\* if obj.StorageClass != types.ObjectStorageClassStandard
NeedsRestore(class) == class # STANDARD

\* for _, obj := range page.Contents { if obj.StorageClass != STANDARD { restoreObject } }
\* The storage class of the object is what the listing returned for it.
NextObject(i) ==
    /\ pc[i] = "object"
    /\ IF loc[i].page = 0
       THEN Goto(i, "list", loc[i])
       ELSE \E class \in Tiers :
               IF NeedsRestore(class)
               THEN Goto(i, "copy", [loc[i] EXCEPT !.obj = class])
               ELSE Goto(i, "object", [loc[i] EXCEPT !.page = @ - 1])
    /\ Quiet
    /\ UNCHANGED <<bucketPathsList, preexisting, mainpc, launched, row, ch, wg, failedPaths,
                   messageTimestamp, store, reported, result, completed, calls,
                   cause,
                   credVars, recording>>

\* Variant of ObjectDone: an error of restoreObject ends the path as failed.
ObjectDone_AbortPath(i, err, found) ==
    /\ lastErr' = IF err = "" THEN NoErr
                   ELSE Recorded([who |-> i, what |-> err, found |-> found], NoErr)
    /\ lastPost' = NoPost
    /\ IF err = ""
       THEN Goto(i, "object", [loc[i] EXCEPT !.page = @ - 1, !.obj = ""])
            /\ UNCHANGED <<reported, cause>>
       ELSE Fail(i) /\ Because(i, "object")

\* restoreObject returned (nil, or an error that the loop logs before its
\* continue): the loop goes on with the next object of the page.  err names
\* the failed step ("" for none), found the storage class HeadObject reported.
ObjectDone(i, err, found) ==
    /\ Goto(i, "object", [loc[i] EXCEPT !.page = @ - 1, !.obj = ""])
    /\ lastErr' = IF err = "" THEN NoErr
                   ELSE Recorded([who |-> i, what |-> err, found |-> found], NoErr)
    /\ lastPost' = NoPost
    /\ UNCHANGED <<reported, cause>>

\* restoreObject: svc.CopyObject succeeds, or fails and restoreObject returns
\* the error.
CopyObject(i) ==
    /\ pc[i] = "copy"
    /\ ~Retrieving(i)
    /\ \/ Goto(i, "head", loc[i]) /\ Quiet /\ UNCHANGED <<reported, cause>>
       \/ ObjectDone(i, "copy", "")
    /\ UNCHANGED <<bucketPathsList, preexisting, mainpc, launched, row, ch, wg, failedPaths,
                   messageTimestamp, store, result, completed, calls,
                   credVars, recording>>

\* if headOutput.StorageClass == "" || headOutput.StorageClass != "STANDARD"
NotRestored(class) == class = "" \/ class # STANDARD

\* restoreObject: svc.HeadObject fails, or reports a storage class (possibly
\* none); restoreObject returns an error unless the class is STANDARD.
HeadObject(i) ==
    /\ pc[i] = "head"
    /\ ~Retrieving(i)
    /\ \E outcome \in {"error"} \cup Tiers \cup {""} :
          IF outcome = "error" THEN ObjectDone(i, "head", "")
          ELSE IF NotRestored(outcome) THEN ObjectDone(i, "mismatch", outcome)
          ELSE ObjectDone(i, "", outcome)
    /\ UNCHANGED <<bucketPathsList, preexisting, mainpc, launched, row, ch, wg, failedPaths,
                   messageTimestamp, store, result, completed, calls,
                   credVars, recording>>

(***************************************************************************)
(* updateProcessedPaths as a goroutine runs it (main.go:176-292): three    *)
(* statements, each committed on its own, on a connection of its own.      *)
(***************************************************************************)

\* The error return of updateProcessedPaths: restoreObjectsInPath logs it and
\* appends the path to failedPaths (main.go:383-387).
UpdateFailed(i) ==
    /\ Fail(i)
    /\ Because(i, "ledger")
    /\ result' = [result EXCEPT ![i] = "err"]

\* The nil return of updateProcessedPaths.
UpdateReturned(i) ==
    /\ Goto(i, "return", LocInit)
    /\ result' = [result EXCEPT ![i] = "nil"]
    /\ UNCHANGED <<reported, cause>>

\* SELECT bucket_paths, processed_paths ... Scan: fails when no row has the
\* request id (sql.ErrNoRows) or the database fails; otherwise the lists are
\* decoded and the new lists computed (main.go:185-201).
SelectPaths(i) ==
    /\ pc[i] = "select"
    /\ \/ /\ row # NoRow
          /\ Goto(i, "update",
                  [loc[i] EXCEPT !.bp = RemoveFirst(Pending(row), bucketPathsList[i]),
                                 !.pp = AppendProcessed(Processed(row), bucketPathsList[i])])
          /\ UNCHANGED <<reported, result, cause>>
       \/ UpdateFailed(i)
    /\ Quiet
    /\ UNCHANGED <<bucketPathsList, preexisting, mainpc, launched, row, ch, wg, failedPaths,
                   messageTimestamp, store, completed, calls,
                   credVars, recording>>

\* UPDATE restore_requests SET bucket_paths, processed_paths ...: fails in the
\* database, or writes the computed lists over the row (no error when no row
\* matches) and commits (main.go:203-212).
UpdatePaths(i) ==
    /\ pc[i] = "update"
    /\ \/ /\ row' = UpdatedRow(row, loc[i].bp, loc[i].pp)
          /\ Goto(i, "updatePost", loc[i])
          /\ UNCHANGED <<reported, result, cause>>
       \/ /\ UpdateFailed(i)
          /\ UNCHANGED row
    /\ Quiet
    /\ UNCHANGED <<bucketPathsList, preexisting, mainpc, launched, ch, wg, failedPaths,
                   messageTimestamp, store, completed, calls,
                   credVars, recording>>

\* The "Updated database record" post after the UPDATE has committed; the
\* DELETE follows when the computed pending list is empty, the nil return
\* otherwise (main.go:214-273).
UpdatePost(i) ==
    /\ pc[i] = "updatePost"
    /\ Post("updated", <<loc[i].bp, loc[i].pp>>)
    /\ IF Len(loc[i].bp) = 0
       THEN Goto(i, "delete", loc[i]) /\ UNCHANGED <<reported, result, cause>>
       ELSE UpdateReturned(i)
    /\ UNCHANGED <<bucketPathsList, preexisting, mainpc, launched, row, ch, wg, failedPaths,
                   store, completed, calls,
                   credVars, recording>>

\* DELETE FROM restore_requests WHERE request_id = ?: fails in the database,
\* or removes the row and commits (main.go:273-278).
DeleteRecord(i) ==
    /\ pc[i] = "delete"
    /\ \/ /\ row' = NoRow
          /\ Goto(i, "deletePost", loc[i])
          /\ UNCHANGED <<reported, result, cause>>
       \/ /\ UpdateFailed(i)
          /\ UNCHANGED row
    /\ Quiet
    /\ UNCHANGED <<bucketPathsList, preexisting, mainpc, launched, ch, wg, failedPaths,
                   messageTimestamp, store, completed, calls,
                   credVars, recording>>

\* The "Record deleted" post after the DELETE has committed, then the nil
\* return (main.go:279-291).
DeletePost(i) ==
    /\ pc[i] = "deletePost"
    /\ Post("deleted", <<>>)
    /\ UpdateReturned(i)
    /\ UNCHANGED <<bucketPathsList, preexisting, mainpc, launched, row, ch, wg, failedPaths,
                   store, completed, calls,
                   credVars, recording>>

(***************************************************************************)
(* The append of bucketPath to the failedPaths slice that main shares,     *)
(* with no lock: the slice header is read, then the extended slice is      *)
(* written back.                                                           *)
(***************************************************************************)
AppendRead(i) ==
    /\ pc[i] = "append"
    /\ Goto(i, "appendWrite", [loc[i] EXCEPT !.snap = failedPaths])
    /\ Quiet
    /\ UNCHANGED <<bucketPathsList, preexisting, mainpc, launched, row, ch, wg, failedPaths,
                   messageTimestamp, store, reported, result, completed, calls,
                   cause,
                   credVars, recording>>

AppendWrite(i) ==
    /\ pc[i] = "appendWrite"
    /\ failedPaths' = Append(loc[i].snap, bucketPathsList[i])
    /\ Goto(i, "return", LocInit)
    /\ Quiet
    /\ UNCHANGED <<bucketPathsList, preexisting, mainpc, launched, row, ch, wg,
                   messageTimestamp, store, reported, result, completed, calls,
                   cause,
                   credVars, recording>>

\* The deferred calls run at return, the last registered first: the release
\* of the gate slot, <-ch (main.go:332).
Return(i) ==
    /\ pc[i] = "return"
    /\ ch' = Released(ch)
    /\ Goto(i, "wgDone", loc[i])
    /\ Quiet
    /\ UNCHANGED <<bucketPathsList, preexisting, mainpc, launched, row, wg, failedPaths,
                   messageTimestamp, store, reported, result, completed, calls,
                   cause,
                   credVars, recording>>

\* The deferred wg.Done() (main.go:328), after the release of the slot.
WgDone(i) ==
    /\ pc[i] = "wgDone"
    /\ wg' = wg - 1
    /\ Goto(i, "done", loc[i])
    /\ Quiet
    /\ UNCHANGED <<bucketPathsList, preexisting, mainpc, launched, row, ch, failedPaths,
                   messageTimestamp, store, reported, result, completed, calls,
                   cause,
                   credVars, recording>>

(***************************************************************************)
(* customCredentialsProvider and renewCredentials (main.go:38-53, 431-446).*)
(* The credentials are a struct of several fields behind a pointer; a      *)
(* struct assignment copies it field by field, the copy of Retrieve under  *)
(* the read lock of the RWMutex and the copy of UpdateCredentials under    *)
(* its write lock.  A set of credentials is named by the tick of the       *)
(* ticker whose assumeRole produced it, 0 for the initial one.             *)
(***************************************************************************)
CredFields == <<"AccessKeyID", "SecretAccessKey", "SessionToken">>

\* The credentials assumeRole returned at tick v (the initial ones for 0).
Material(v) == [f \in 1..Len(CredFields) |-> v]

\* A copy of which no field has been written yet.
Blank == [f \in 1..Len(CredFields) |-> -1]

\* ticks: the ticks received; failed: those at which assumeRole failed;
\* new: the credentials of the last successful assumeRole.
RenewInit == [pc |-> "ticker", ticks |-> 0, failed |-> 0, new |-> Material(0), idx |-> 1]

RetrInit == [pc |-> "idle", idx |-> 1, val |-> Blank, asof |-> Blank,
             done |-> FALSE, err |-> FALSE]

\* The process is alive: goroutines die when main returns or calls log.Fatalf.
Running == mainpc \notin {"done", "fatal"}

\* Variant of CanRLock: the read lock does not wait for the writer.
CanRLock_Unguarded(m) == TRUE

\* p.mu.RLock() proceeds when no writer holds the mutex.
CanRLock(m) == ~m.writer

\* Variant of CanLock: the write lock does not wait for the readers.
CanLock_IgnoreReaders(m) == ~m.writer

\* p.mu.Lock() proceeds when no reader and no writer holds the mutex.
CanLock(m) == m.readers = 0 /\ ~m.writer

\* Variant of AfterRenewError: the loop ends at the first failed renewal.
AfterRenewError_Stop == "stopped"

\* if err != nil { log.Printf(...); continue }: back to the ticker.
AfterRenewError == "ticker"

\* for range ticker.C { newCreds, err := assumeRole(...) ... }: a tick, at
\* which assumeRole fails (the loop continues) or returns new credentials.
Tick ==
    /\ Running
    /\ renew.pc = "ticker"
    /\ renew.ticks < MaxTicks
    /\ \/ renew' = [renew EXCEPT !.ticks = @ + 1, !.failed = @ + 1, !.pc = AfterRenewError]
       \/ renew' = [renew EXCEPT !.ticks = @ + 1, !.pc = "lock",
                                 !.new = Material(renew.ticks + 1)]
    /\ UNCHANGED <<creds, mu, retr, latest>>

\* UpdateCredentials: p.mu.Lock()
UpdateLock ==
    /\ Running
    /\ renew.pc = "lock"
    /\ CanLock(mu)
    /\ mu' = [mu EXCEPT !.writer = TRUE]
    /\ renew' = [renew EXCEPT !.pc = "write", !.idx = 1]
    /\ UNCHANGED <<creds, retr, latest>>

\* UpdateCredentials: *p.creds = newCreds, one field at a time.
UpdateWrite ==
    /\ Running
    /\ renew.pc = "write"
    /\ creds' = [creds EXCEPT ![renew.idx] = renew.new[renew.idx]]
    /\ renew' = IF renew.idx = Len(CredFields)
                THEN [renew EXCEPT !.pc = "unlock"]
                ELSE [renew EXCEPT !.idx = @ + 1]
    /\ UNCHANGED <<mu, retr, latest>>

\* UpdateCredentials: the deferred p.mu.Unlock(); the update is complete.
UpdateUnlock ==
    /\ Running
    /\ renew.pc = "unlock"
    /\ mu' = [mu EXCEPT !.writer = FALSE]
    /\ latest' = renew.new
    /\ renew' = [renew EXCEPT !.pc = "ticker"]
    /\ UNCHANGED <<creds, retr>>

\* Retrieve, called by the S3 client of goroutine i before a request:
\* p.mu.RLock()
RetrieveLock(i) ==
    /\ pc[i] \in StoreCallPcs
    /\ retr[i].pc = "idle"
    /\ CanRLock(mu)
    /\ mu' = [mu EXCEPT !.readers = @ + 1]
    /\ retr' = [retr EXCEPT ![i] = [pc |-> "read", idx |-> 1, val |-> Blank,
                                     asof |-> latest, done |-> FALSE, err |-> FALSE]]
    /\ UNCHANGED <<creds, renew, latest>>

\* Retrieve: the copy of *p.creds into the result, one field at a time.
RetrieveRead(i) ==
    /\ retr[i].pc = "read"
    /\ retr' = [retr EXCEPT ![i].val[retr[i].idx] = creds[retr[i].idx],
                            ![i].idx = @ + 1,
                            ![i].pc = IF retr[i].idx = Len(CredFields) THEN "unlock" ELSE "read"]
    /\ UNCHANGED <<creds, mu, renew, latest>>

\* Retrieve: the deferred p.mu.RUnlock(), and the return of the copy with a
\* nil error.
RetrieveReturn(i) ==
    /\ retr[i].pc = "unlock"
    /\ mu' = [mu EXCEPT !.readers = @ - 1]
    /\ retr' = [retr EXCEPT ![i].pc = "idle", ![i].done = TRUE, ![i].err = FALSE]
    /\ UNCHANGED <<creds, renew, latest>>

\* What a step of the credential cache leaves alone.
ProgramUnchanged ==
    /\ Quiet
    /\ UNCHANGED <<bucketPathsList, preexisting, mainpc, launched, row, ch, wg, failedPaths,
                   messageTimestamp, pc, loc, store, reported, result, completed, calls,
                   cause, recording>>

CredNext ==
    \/ Tick /\ ProgramUnchanged
    \/ UpdateLock /\ ProgramUnchanged
    \/ UpdateWrite /\ ProgramUnchanged
    \/ UpdateUnlock /\ ProgramUnchanged
    \/ \E i \in Restorers : RetrieveLock(i) /\ ProgramUnchanged
    \/ \E i \in Restorers : RetrieveRead(i) /\ ProgramUnchanged
    \/ \E i \in Restorers : RetrieveReturn(i) /\ ProgramUnchanged

(***************************************************************************)
(* The program: main and its goroutines.                                   *)
(***************************************************************************)
InitRun(paths, start, objs, rec) ==
    /\ bucketPathsList = paths
    /\ preexisting \in BOOLEAN
    /\ row = IF preexisting THEN NewRow(<<PathAX>>) ELSE NoRow
    /\ mainpc = start
    /\ launched = 0
    /\ ch = 0
    /\ wg = 0
    /\ failedPaths = <<>>
    /\ messageTimestamp = ""
    /\ pc = [i \in 1..Len(paths) |-> "idle"]
    /\ loc = [i \in 1..Len(paths) |-> LocInit]
    /\ store = [objs |-> objs]
    /\ reported = {}
    /\ result = [i \in 1..Len(paths) |-> "none"]
    /\ completed = 0
    /\ calls = <<>>
    /\ recording = rec
    /\ cause = [i \in 1..Len(paths) |-> "none"]
    /\ lastPost = NoPost
    /\ lastErr = NoErr
    /\ creds = Material(0)
    /\ mu = [readers |-> 0, writer |-> FALSE]
    /\ renew = RenewInit
    /\ retr = [i \in 1..Len(paths) |-> RetrInit]
    /\ latest = Material(0)

\* A run that records no history.
InitObjs(paths, start, objs) == InitRun(paths, start, objs, FALSE)

InitWith(paths, start) == InitObjs(paths, start, MaxObjs)

\* A run of main that records its history.
InitRecording(paths, objs) == InitRun(paths, "create", objs, TRUE)

\* main is given a non-empty list of paths (main.go:455).
Init == \E paths \in SeqsUpTo(PathUniverse, MaxPaths) \ {<<>>} : InitWith(paths, "create")

Next ==
    \/ MainCreate
    \/ Launch
    \/ Wait
    \/ Report
    \/ \E i \in Restorers : Acquire(i)
    \/ \E i \in Restorers : SplitPath(i)
    \/ \E i \in Restorers : LoadConfig(i)
    \/ \E i \in Restorers : NextPage(i)
    \/ \E i \in Restorers : NextObject(i)
    \/ \E i \in Restorers : CopyObject(i)
    \/ \E i \in Restorers : HeadObject(i)
    \/ \E i \in Restorers : SelectPaths(i)
    \/ \E i \in Restorers : UpdatePaths(i)
    \/ \E i \in Restorers : UpdatePost(i)
    \/ \E i \in Restorers : DeleteRecord(i)
    \/ \E i \in Restorers : DeletePost(i)
    \/ \E i \in Restorers : AppendRead(i)
    \/ \E i \in Restorers : AppendWrite(i)
    \/ \E i \in Restorers : Return(i)
    \/ \E i \in Restorers : WgDone(i)

Spec == Init /\ [][Next]_vars

(***************************************************************************)
(* The program on every small input, in runs that record their history.    *)
(***************************************************************************)
HistoryInit ==
    \E paths \in SeqsUpTo(PathUniverse, MaxPaths) \ {<<>>} : InitRecording(paths, MaxObjs)

HistorySpec == HistoryInit /\ [][Next]_vars

(***************************************************************************)
(* The gate scenario: the program on every small input, and on an input of *)
(* more paths than the gate has slots.                                     *)
(***************************************************************************)
GatePaths == [i \in 1..(GateCapacity + GateExtra) |-> PathBad]

GateInit == Init \/ InitWith(GatePaths, "create")

GateSpec == GateInit /\ [][Next]_vars

(***************************************************************************)
(* The gate scenario under fair scheduling.  The Go scheduler runs every   *)
(* runnable goroutine and every call of a collaborator returns, so each    *)
(* action that stays enabled is eventually taken; the specification asks   *)
(* only for the weaker WF_vars(Next), which the fairness of each goroutine *)
(* implies.  The listing of a path is finite: a goroutine that keeps       *)
(* asking for pages eventually gets the last one.                          *)
(***************************************************************************)

\* NextPage of goroutine i returns the last page of the listing.
LastPage(i) ==
    /\ NextPage(i)
    /\ pc'[i] = "object"
    /\ ~loc'[i].more

Fairness ==
    /\ WF_vars(Next)
    /\ SF_vars(\E i \in Restorers : LastPage(i))

\* Runs of main from create: the short lists, and the list of more paths
\* than the gate has slots.
LiveInit == Init \/ InitWith(GatePaths, "create")

LiveSpec == LiveInit /\ [][Next]_vars /\ Fairness

(***************************************************************************)
(* The ledger under a sequential client: createDBAndRecord, then calls of  *)
(* updateProcessedPaths one after the other, each run to its return.  The  *)
(* database itself does not fail here: the INSERT fails only on an         *)
(* existing row and the SELECT only on a missing one.                      *)
(***************************************************************************)

\* createDBAndRecord (main.go:102-174)
ClientCreate ==
    /\ mainpc = "clientCreate"
    /\ IF row = NoRow
       THEN /\ row' = NewRow(bucketPathsList)
            /\ Post("created", <<bucketPathsList>>)
            /\ mainpc' = "client"
       ELSE /\ mainpc' = "fatal"
            /\ Quiet
            /\ UNCHANGED <<row, messageTimestamp>>
    /\ UNCHANGED <<bucketPathsList, preexisting, launched, ch, wg, failedPaths,
                   pc, loc, store, reported, result, completed, calls, cause,
                   credVars, recording>>

\* updateProcessedPaths(requestID, p) (main.go:176-292), from call to return.
\* The call is recorded with the row it found, the row its UPDATE wrote and
\* whether it returned an error.
ClientMarkProcessed(p) ==
    /\ mainpc = "client"
    /\ Len(calls) < MaxCalls
    /\ IF row = NoRow
       THEN /\ calls' = Append(calls, [path |-> p, before |-> row, wrote |-> row, err |-> TRUE])
            /\ Quiet
            /\ UNCHANGED <<row, messageTimestamp>>
       ELSE LET bp == RemoveFirst(Pending(row), p)
                pp == AppendProcessed(Processed(row), p)
                written == UpdatedRow(row, bp, pp)
            IN  /\ row' = IF Len(bp) = 0 THEN NoRow ELSE written
                /\ IF Len(bp) = 0
                   THEN \E ok1, ok2 \in BOOLEAN :
                           /\ messageTimestamp' =
                                  PostedTimestamp(PostedTimestamp(messageTimestamp, ok1), ok2)
                           /\ lastPost' = Recorded([kind |-> "deleted", ok |-> ok2,
                                                      lists |-> <<>>], NoPost)
                           /\ lastErr' = NoErr
                   ELSE Post("updated", <<bp, pp>>)
                /\ calls' = Append(calls, [path |-> p, before |-> row, wrote |-> written,
                                           err |-> FALSE])
    /\ UNCHANGED <<bucketPathsList, preexisting, mainpc, launched, ch, wg, failedPaths,
                   pc, loc, store, reported, result, completed, cause,
                   credVars, recording>>

ClientNext ==
    \/ ClientCreate
    \/ \E p \in AllPaths : ClientMarkProcessed(p)

LedgerInit ==
    \E paths \in SeqsUpTo(AllPaths, MaxLen) \ {<<>>} : InitWith(paths, "clientCreate")

\* Every ledger state: those of the program and those of the sequential client.
LedgerSpec == (Init \/ LedgerInit) /\ [][Next \/ ClientNext]_vars

(***************************************************************************)
(* The credential cache in use: one goroutine restoring the path a/x while *)
(* the renewal loop ticks.                                                 *)
(***************************************************************************)
CredInit == InitWith(<<PathAX>>, "create")

CredSpec == CredInit /\ [][Next \/ CredNext]_vars

(***************************************************************************)
(* The program on one input path, whose listing returns up to MaxPathObjs  *)
(* objects.                                                                *)
(***************************************************************************)
PathInit == \E p \in AllPaths : InitRecording(<<p>>, MaxPathObjs)

PathSpec == PathInit /\ [][Next]_vars

(***************************************************************************)
(* The scenario of the paths a/x, a/y and bad, and of a/x and a/y alone,   *)
(* in which every call of the object store and of the database succeeds:   *)
(* no goroutine reports a failure but for a malformed path, and no         *)
(* restoreObject returns an error.  Slack posts succeed or fail.           *)
(***************************************************************************)
ScenarioPaths == <<PathAX, PathAY, PathBad>>

ScenarioInit ==
    /\ InitRecording(ScenarioPaths, MaxObjs) \/ InitRecording(<<PathAX, PathAY>>, MaxObjs)
    /\ ~preexisting

\* A step in which no call fails.
NoFault ==
    /\ lastErr' = NoErr
    /\ \A i \in Restorers : cause'[i] \in {"none", "malformed"}
    /\ mainpc' # "fatal"

ScenarioNext ==
    \/ MainCreate /\ NoFault
    \/ Launch /\ NoFault
    \/ Wait /\ NoFault
    \/ Report /\ NoFault
    \/ \E i \in Restorers : Acquire(i) /\ NoFault
    \/ \E i \in Restorers : SplitPath(i) /\ NoFault
    \/ \E i \in Restorers : LoadConfig(i) /\ NoFault
    \/ \E i \in Restorers : NextPage(i) /\ NoFault
    \/ \E i \in Restorers : NextObject(i) /\ NoFault
    \/ \E i \in Restorers : CopyObject(i) /\ NoFault
    \/ \E i \in Restorers : HeadObject(i) /\ NoFault
    \/ \E i \in Restorers : SelectPaths(i) /\ NoFault
    \/ \E i \in Restorers : UpdatePaths(i) /\ NoFault
    \/ \E i \in Restorers : UpdatePost(i) /\ NoFault
    \/ \E i \in Restorers : DeleteRecord(i) /\ NoFault
    \/ \E i \in Restorers : DeletePost(i) /\ NoFault
    \/ \E i \in Restorers : AppendRead(i) /\ NoFault
    \/ \E i \in Restorers : AppendWrite(i) /\ NoFault
    \/ \E i \in Restorers : Return(i) /\ NoFault
    \/ \E i \in Restorers : WgDone(i) /\ NoFault

ScenarioSpec == ScenarioInit /\ [][ScenarioNext]_vars

(***************************************************************************)
(* Properties.                                                             *)
(***************************************************************************)
Range(s) == {s[k] : k \in 1..Len(s)}

Count(s, x) == Cardinality({k \in 1..Len(s) : s[k] = x})

NoRepeats(s) == \A j, k \in 1..Len(s) : s[j] = s[k] => j = k

\* Every path of s is valid UTF-8: json.Marshal stores it as it is.
ValidPaths(s) == \A k \in 1..Len(s) : ToValidUTF8(s[k]) = s[k]

\* main is past wg.Wait().
Joined == mainpc \in {"report", "done"}

\* The row of the request was created by this run.
Created == mainpc \in {"launch", "wait", "report", "done", "client"}

\* Every entry of the list s occurs at least as often in t.
SubBag(s, t) == \A x \in Range(s) : Count(s, x) <= Count(t, x)

\* C1: with distinct input paths, each goroutine calling updateProcessedPaths
\* once for its own path: the pending list of the row never gains an entry
\* from one ledger state to the next, and once every call has returned nil
\* and main has joined, the row is deleted.
C1_NoLostUpdate ==
    /\ [][(NoRepeats(bucketPathsList) /\ Created /\ row # NoRow /\ row' # NoRow)
            => SubBag(Pending(row'), Pending(row))]_vars
    /\ []((NoRepeats(bucketPathsList) /\ Joined /\ \A i \in Restorers : result[i] = "nil")
            => row = NoRow)

\* C2: once main has joined, the row does not exist or its pending paths are
\* exactly the paths collected in failedPaths.
C2_PendingIsFailed ==
    Joined => (row = NoRow \/ Range(Pending(row)) = Range(failedPaths))

\* C3 as stated: in every ledger state, for every input list, no path is both
\* pending and processed.
C3_Disjoint ==
    (Created /\ row # NoRow) => Range(Pending(row)) \cap Range(Processed(row)) = {}

\* The part of C3 that holds: for an input list of valid UTF-8 paths with no
\* repeated entry, in every ledger state no path is both pending and
\* processed.  A repeated entry stays pending after its first removal; a
\* path that json.Marshal rewrites is stored as another string than the one
\* markProcessed compares with, and is never removed.
C3_DisjointValidNoRepeats ==
    (NoRepeats(bucketPathsList) /\ ValidPaths(bucketPathsList) /\ Created /\ row # NoRow)
        => Range(Pending(row)) \cap Range(Processed(row)) = {}

\* The row of the one-entry list of a path that is not valid UTF-8, after
\* markProcessed for that path: the stored form of the path is pending and
\* processed.
C3_RawPathInBoth ==
    /\ bucketPathsList = <<PathRaw>>
    /\ Len(calls) = 1
    /\ calls[1].path = PathRaw
    /\ row # NoRow
    /\ ToValidUTF8(PathRaw) \in Range(Pending(row)) \cap Range(Processed(row))

\* C4: no ledger state holds a row of the request with an empty pending list,
\* and when the row of a created request is absent every goroutine's
\* updateProcessedPaths has moved its path to processed and returned nil.
C4_DeletedWhenEmpty ==
    /\ (Created /\ row # NoRow) => Pending(row) # <<>>
    /\ (Created /\ row = NoRow) => \A i \in Restorers : result[i] = "nil"

\* C5: the gate channel never holds more than 5 tokens, at most 5 goroutines
\* are past the acquisition, and the goroutines doing per-path work are never
\* more than the tokens in the channel.
C5_GateBound ==
    /\ ch <= GateCapacity
    /\ Cardinality({i \in Restorers : pc[i] \in InFlightPcs}) <= GateCapacity
    /\ Cardinality({i \in Restorers : pc[i] \in WorkPcs}) <= ch

\* The gate is full and a launched goroutine waits for a slot.
C5_Witness ==
    /\ ch = GateCapacity
    /\ \E i \in Restorers : pc[i] = "acquire"
    /\ \E i \in Restorers : pc[i] \in WorkPcs

\* C6: the tokens in the gate channel are exactly the goroutines between
\* acquisition and the deferred receive of their return, and none is left
\* once main has joined.
C6_SlotsReleased ==
    /\ ch = Cardinality({i \in Restorers : pc[i] \in InFlightPcs})
    /\ Joined => ch = 0

\* main has joined after one goroutine returned on a failure and another
\* returned normally.
C6_Witness ==
    /\ Joined
    /\ ch = 0
    /\ reported # {}
    /\ \E i \in Restorers : result[i] = "nil"

\* C7: once main has joined, failedPaths holds the path of every goroutine
\* that reported a path-level failure, once per such goroutine, and nothing else.
C7_AllFailuresCollected ==
    Joined => \A p \in PathUniverse :
                 Count(failedPaths, p) = Cardinality({i \in reported : bucketPathsList[i] = p})

\* C8: the completion report is made at most once, only when every goroutine
\* has returned, it has been made when main ends, and nothing moves after it.
C8_CompletedOnceAfterJoin ==
    /\ [](/\ completed <= 1
          /\ completed = 1 => \A i \in Restorers : pc[i] = "done"
          /\ mainpc = "done" <=> completed = 1)
    /\ [][completed = 1 => UNCHANGED <<pc, row, failedPaths, ch, wg, completed>>]_vars

\* main has reported completion with failed paths collected.
C8_Witness ==
    /\ completed = 1
    /\ failedPaths # <<>>
    /\ \E i \in Restorers : result[i] = "nil"

\* Calls j < k of the sequential client for the same path, with no call for
\* that path between them, each finding the row of the request.
TwiceSamePath(j, k) ==
    /\ j < k
    /\ calls[j].path = calls[k].path
    /\ \A m \in (j + 1)..(k - 1) : calls[m].path # calls[j].path
    /\ calls[j].before # NoRow
    /\ calls[k].before # NoRow

Others(s, p) == SelectSeq(s, LAMBDA x : x # p)

\* What C9 says of any two such calls but the number of removals: neither
\* returns an error, the path is appended twice to processed_paths, and each
\* call leaves the other entries of pending_paths in their order.
TwiceAppends(j, k) ==
    LET p == calls[j].path IN
    /\ ~calls[j].err
    /\ ~calls[k].err
    /\ Count(Processed(calls[k].wrote), p) = Count(Processed(calls[j].before), p) + 2
    /\ Processed(calls[j].wrote) = Append(Processed(calls[j].before), p)
    /\ Processed(calls[k].wrote) = Append(Processed(calls[k].before), p)
    /\ \A m \in {j, k} :
          Others(Pending(calls[m].wrote), p) = Others(Pending(calls[m].before), p)

\* C9 as stated: two calls for the same path, the row existing at each, append
\* the path twice and remove it at most once from pending_paths.
C9_TwiceRemovesOnce ==
    \A j, k \in 1..Len(calls) :
        TwiceSamePath(j, k) =>
            /\ TwiceAppends(j, k)
            /\ Count(Pending(calls[j].before), calls[j].path)
                 - Count(Pending(calls[k].wrote), calls[j].path) <= 1

\* The part of C9 that holds, for a path of valid UTF-8: each of the two
\* calls removes at most one entry of the path (one when it is pending, none
\* otherwise), so at most one in total when the path occurs at most once in
\* pending_paths.  A path that json.Marshal rewrites is appended in its
\* stored form, not as the path of the call.
C9_ValidTwiceRemovesOncePerCall ==
    \A j, k \in 1..Len(calls) :
        (TwiceSamePath(j, k) /\ ValidPaths(<<calls[j].path>>)) =>
            LET p == calls[j].path IN
            /\ TwiceAppends(j, k)
            /\ \A m \in {j, k} :
                  Count(Pending(calls[m].before), p) - Count(Pending(calls[m].wrote), p)
                      = IF Count(Pending(calls[m].before), p) > 0 THEN 1 ELSE 0
            /\ Count(Pending(calls[j].before), p) <= 1
                  => Count(Pending(calls[j].before), p) - Count(Pending(calls[k].wrote), p) <= 1

\* Two calls for a path that is not valid UTF-8, the row existing at each:
\* the row holds the stored form of the path twice, and not the path.
C9_RawPathTwice ==
    \E j, k \in 1..Len(calls) :
        /\ TwiceSamePath(j, k)
        /\ calls[j].path = PathRaw
        /\ Count(Processed(calls[k].wrote), ToValidUTF8(PathRaw)) = 2
        /\ Count(Processed(calls[k].wrote), PathRaw) = 0

CallPaths == [k \in 1..Len(calls) |-> calls[k].path]

\* C10 as stated: create, then one call per entry of the input list in list
\* order: no call returns an error, the row exists until the last call and is
\* gone after it.
C10_RoundTrip ==
    (mainpc = "client" /\ Len(calls) <= Len(bucketPathsList)
       /\ CallPaths = SubSeq(bucketPathsList, 1, Len(calls)))
        => /\ \A k \in 1..Len(calls) : ~calls[k].err
           /\ row = NoRow <=> Len(calls) = Len(bucketPathsList)

\* The part of C10 that holds: the round trip of a list of valid UTF-8
\* paths, with or without repeated entries.
C10_RoundTripValid ==
    (mainpc = "client" /\ Len(calls) <= Len(bucketPathsList)
       /\ ValidPaths(bucketPathsList)
       /\ CallPaths = SubSeq(bucketPathsList, 1, Len(calls)))
        => /\ \A k \in 1..Len(calls) : ~calls[k].err
           /\ row = NoRow <=> Len(calls) = Len(bucketPathsList)

\* The round trip of the one-entry list of a path that is not valid UTF-8
\* has been made and the row is still there, its path pending.
C10_RawPathKeepsRow ==
    /\ mainpc = "client"
    /\ bucketPathsList = <<PathRaw>>
    /\ CallPaths = bucketPathsList
    /\ ~calls[1].err
    /\ row # NoRow
    /\ Pending(row) = <<ToValidUTF8(PathRaw)>>

\* The path of goroutine i has no separator.
NoSeparator(i) == IndexSep(bucketPathsList[i], 1) = 0

\* Goroutine i has made no call of the object store and no statement on the
\* ledger: it has been at no position where one is made.
NoStoreNoLedger(i) ==
    /\ pc[i] \notin StoreCallPcs \cup LedgerCallPcs \cup {"config", "object"}
    /\ ~Retrieving(i)
    /\ result[i] = "none"

\* C11: a goroutine whose path has no separator makes no object-store call
\* (listing, copy, head) and no ledger update, and once it has returned its
\* path is in failedPaths.
C11_MalformedRecorded ==
    \A i \in Restorers :
        NoSeparator(i) =>
            /\ NoStoreNoLedger(i)
            /\ pc[i] \in {"return", "wgDone", "done"} => bucketPathsList[i] \in Range(failedPaths)

\* The part of C11 that holds: no object-store call and no ledger update.
C11_NoStoreNoLedger ==
    \A i \in Restorers : NoSeparator(i) => NoStoreNoLedger(i)

\* C12 as stated: for the paths a/x, a/y, bad with every listing and
\* restoration succeeding, the run ends with the row deleted, failedPaths
\* equal to [bad] and a failed-paths notification that lists bad.
C12_ScenarioEnds ==
    (bucketPathsList = ScenarioPaths /\ mainpc = "done") =>
        /\ row = NoRow
        /\ failedPaths = <<PathBad>>
        /\ lastPost.kind = "failed"
        /\ lastPost.lists = <<(<<PathBad>>)>>

\* C12 amended: the run ends with the row still there and bad among its
\* pending paths, failedPaths equal to [bad] and a failed-paths notification
\* that lists bad.
C12_ScenarioKeepsRow ==
    (bucketPathsList = ScenarioPaths /\ mainpc = "done") =>
        /\ row # NoRow
        /\ PathBad \in Range(Pending(row))
        /\ failedPaths = <<PathBad>>
        /\ lastPost.kind = "failed"
        /\ lastPost.lists = <<(<<PathBad>>)>>

\* The scenario has ended with a/x and a/y processed and bad pending.
C12_Witness ==
    /\ bucketPathsList = ScenarioPaths
    /\ mainpc = "done"
    /\ row # NoRow
    /\ Pending(row) = <<PathBad>>
    /\ Processed(row) \in {<<PathAX, PathAY>>, <<PathAY, PathAX>>}

\* C13: every Retrieve returns a complete set of credentials, the initial one
\* or the argument of a completed update and never a mix of two, namely the
\* argument of the last update completed when it was called; and the
\* goroutine that retrieves stays where it is in its path.
C13_RetrieveUnmixed ==
    /\ [](\A i \in Restorers :
             retr[i].done =>
                 /\ \E v \in 0..MaxTicks : retr[i].val = Material(v)
                 /\ retr[i].val = retr[i].asof
                 /\ ~retr[i].err)
    /\ [][\A i \in Restorers :
             retr'[i] # retr[i] => (pc'[i] = pc[i] /\ loc'[i] = loc[i]
                                     /\ pc[i] \in StoreCallPcs)]_vars

\* A goroutine in the middle of restoring an object has retrieved the
\* credentials of the first renewal.
C13_Witness ==
    \E i \in Restorers :
        /\ pc[i] = "head"
        /\ retr[i].done
        /\ retr[i].val = Material(1)
        /\ latest = Material(1)

\* A renewal failed in this step.
RenewFailed == renew'.failed = renew.failed + 1

\* C19: a failed renewal leaves the credentials held unchanged and the loop
\* at its ticker; whenever the loop is at its ticker the credentials held are
\* those of the last successful assumeRole, the mutex is free of the writer,
\* and a goroutine about to call the object store can retrieve; no Retrieve
\* returns an error.
C19_RenewFailureKeeps ==
    /\ [][RenewFailed => (creds' = creds /\ latest' = latest /\ mu' = mu
                           /\ renew'.new = renew.new /\ renew'.pc = "ticker")]_vars
    /\ [](renew.pc \in {"ticker", "lock", "write", "unlock"})
    /\ [](renew.pc = "ticker" =>
             /\ creds = renew.new
             /\ latest = renew.new
             /\ ~mu.writer
             /\ \A i \in Restorers :
                   (pc[i] \in StoreCallPcs /\ ~Retrieving(i))
                       => ENABLED (RetrieveLock(i) /\ ProgramUnchanged))
    /\ [](\A i \in Restorers : ~retr[i].err)

\* After a failed renewal a later one succeeded and a goroutine retrieved
\* its credentials.
C19_Witness ==
    /\ renew.failed >= 1
    /\ renew.pc = "ticker"
    /\ creds = Material(renew.ticks)
    /\ creds # Material(0)
    /\ \E i \in Restorers : retr[i].done /\ retr[i].val = creds

\* Everything a run computes but the Slack thread: the ledger, the positions
\* and results of main and of the goroutines, the gate and failedPaths.
Outcome == <<mainpc, launched, row, ch, wg, failedPaths, pc, loc, store,
             reported, result, completed, cause>>

\* The row as the statement of this step left it, whatever its post did.
Persisted ==
    /\ lastPost'.kind = "created" => row' = NewRow(bucketPathsList)
    /\ lastPost'.kind \in {"updated", "deleted", "failed"} =>
          (row' = row /\ failedPaths' = failedPaths)

\* C14: whenever a step attempts a Slack post, the step with the same ledger
\* state, results, positions and failedPaths is possible with the post
\* succeeding and with the post failing, and the row is as the statement
\* before the post left it.
C14_PostFailureChangesNothing ==
    [][lastPost'.kind # "none" =>
          /\ Persisted
          /\ \A o \in {Outcome'} : \A sent \in BOOLEAN :
                ENABLED (Next /\ Outcome' = o /\ lastPost'.kind # "none"
                              /\ lastPost'.ok = sent)]_vars

\* An UPDATE of the row was followed by a post that failed, after a post
\* that succeeded.
C14_Witness ==
    /\ lastPost.kind = "updated"
    /\ ~lastPost.ok
    /\ messageTimestamp # ""
    /\ row # NoRow
    /\ Processed(row) # <<>>

\* C15: restoreObject is called for a listed object only when the listing
\* gave it the deprecated storage class REDUCED_REDUNDANCY: a goroutine that
\* is copying or verifying an object was given that class for it.
C15_OnlyDeprecatedTier ==
    \A i \in Restorers : pc[i] \in {"copy", "head"} => loc[i].obj = Deprecated

\* Positions inside the page loop of restoreObjectsInPath.
LoopPcs == {"list", "object", "copy", "head"}

\* C16: when restoreObject returns an error (the copy failed, the head failed
\* or the head found a class other than STANDARD) the goroutine is back in
\* the object loop with one object fewer to visit in the page and the same
\* pages to come, and nothing is added to failedPaths; every object of a page
\* is visited in turn; and a goroutine leaves the page loop only for the
\* SELECT of updateProcessedPaths, when the listing has no more pages, or
\* because fetching a page failed.
C16_ObjectFailureContinues ==
    /\ [](\A i \in Restorers :
             lastErr.who = i => (pc[i] = "object" /\ cause[i] = "none" /\ i \notin reported))
    /\ [][\A i \in Restorers :
             /\ lastErr'.who = i =>
                   /\ loc'[i].page = loc[i].page - 1
                   /\ loc'[i].more = loc[i].more
                   /\ failedPaths' = failedPaths
             /\ (pc[i] = "object" /\ <<pc[i], loc[i]>>' # <<pc[i], loc[i]>>) =>
                   IF loc[i].page = 0 THEN pc'[i] = "list"
                   ELSE \/ pc'[i] = "copy" /\ loc'[i].page = loc[i].page
                        \/ pc'[i] = "object" /\ loc'[i].page = loc[i].page - 1
             /\ (pc[i] \in LoopPcs /\ pc'[i] \notin LoopPcs) =>
                   \/ pc[i] = "list" /\ ~loc[i].more /\ pc'[i] = "select"
                   \/ pc[i] = "list" /\ pc'[i] = "append" /\ cause'[i] = "listing"]_vars

\* The verification of an object of a/x found REDUCED_REDUNDANCY again and
\* the goroutine is going on with the next object of the page.
C16_Witness ==
    \E i \in Restorers :
        /\ bucketPathsList[i] = PathAX
        /\ lastErr = [who |-> i, what |-> "mismatch", found |-> Deprecated]
        /\ pc[i] = "object"
        /\ loc[i].page >= 1

\* Positions of a goroutine that has left its work on a path-level failure.
FailedPcs == {"append", "appendWrite", "return", "wgDone", "done"}

\* What C17 says of a goroutine whose NextPage failed, but for failedPaths:
\* it visits no further object and never calls updateProcessedPaths, and its
\* path stays pending in the row.
ListingFailureSkipsLedger(i) ==
    /\ pc[i] \in FailedPcs
    /\ result[i] = "none"
    /\ row # NoRow
    /\ bucketPathsList[i] \in Range(Pending(row))

\* C17: a goroutine whose NextPage failed (on the first page or a later one)
\* visits no further object, never calls updateProcessedPaths, so that its
\* path stays pending, takes no step that changes the row, and once it has
\* returned its path is in failedPaths.
C17_ListingFailureRecorded ==
    /\ [](\A i \in Restorers :
             cause[i] = "listing" =>
                 /\ ListingFailureSkipsLedger(i)
                 /\ pc[i] \in {"return", "wgDone", "done"} => bucketPathsList[i] \in Range(failedPaths))
    /\ [][\A i \in Restorers :
             (cause'[i] = "listing" /\ pc'[i] # pc[i]) => row' = row]_vars

\* The part of C17 that holds: everything but the record in failedPaths.
C17_ListingFailureSkipsLedger ==
    /\ [](\A i \in Restorers : cause[i] = "listing" => ListingFailureSkipsLedger(i))
    /\ [][\A i \in Restorers :
             (cause'[i] = "listing" /\ pc'[i] # pc[i]) => row' = row]_vars

\* The table before main runs: a row with the request id, or none.
InitialRow == IF preexisting THEN NewRow(<<PathAX>>) ELSE NoRow

\* C18: until createDBAndRecord has succeeded no goroutine is launched, none
\* has acquired a slot or called the object store, and the table is as it
\* was; create succeeds only by inserting the row of the request into a
\* table that has none; and when a row with the request id exists main never
\* gets past create: it ends fatally with the row unchanged.
C18_CreateBeforeWork ==
    /\ [](mainpc \in {"create", "fatal"} =>
             /\ launched = 0 /\ wg = 0 /\ ch = 0
             /\ \A i \in Restorers : pc[i] = "idle" /\ ~Retrieving(i)
             /\ store = [objs |-> MaxObjs]
             /\ failedPaths = <<>>
             /\ row = InitialRow)
    /\ []((launched > 0 \/ \E i \in Restorers : pc[i] # "idle") =>
             mainpc \in {"launch", "wait", "report", "done"})
    /\ [](preexisting => mainpc \in {"create", "fatal"})
    /\ [][(mainpc = "create" /\ mainpc' # "create") =>
             \/ mainpc' = "launch" /\ row = NoRow /\ row' = NewRow(bucketPathsList)
             \/ mainpc' = "fatal" /\ row' = row]_vars

\* Create has failed on an existing row.
C18_Witness ==
    /\ preexisting
    /\ mainpc = "fatal"
    /\ row = NewRow(<<PathAX>>)
    /\ Len(bucketPathsList) >= 2

\* The distance of each position of restoreObjectsInPath to "done" along its
\* code, the positions of the listing loop taken with an empty page in hand
\* and no page to come.
PcRank ==
    [idle |-> 16, acquire |-> 15, split |-> 14, config |-> 13,
     list |-> 10, object |-> 11, copy |-> 10, head |-> 9,
     select |-> 9, update |-> 8, updatePost |-> 7, delete |-> 6, deletePost |-> 5,
     append |-> 4, appendWrite |-> 3, return |-> 2, wgDone |-> 1, done |-> 0]

\* What is left of the run of goroutine i, as a number: the distance of its
\* position and, inside the listing loop, three steps for each object of the
\* page in hand and two for a listing with pages to come.
Rank(i) ==
    PcRank[pc[i]]
    + IF pc[i] \in {"list", "object", "copy", "head"}
      THEN 3 * loc[i].page + (IF loc[i].more THEN 2 ELSE 0)
      ELSE 0

\* What is left of main: create, the launches, wg.Wait, the report.
MainRank ==
    CASE mainpc = "create" -> 4
      [] mainpc = "launch" -> 3
      [] mainpc = "wait"   -> 2
      [] mainpc = "report" -> 1
      [] OTHER             -> 0

\* Rank(i) after the step.
RankAfter(i) ==
    PcRank[pc'[i]]
    + IF pc'[i] \in {"list", "object", "copy", "head"}
      THEN 3 * loc'[i].page + (IF loc'[i].more THEN 2 ELSE 0)
      ELSE 0

\* The goroutines whose position or locals the step changes.
Movers == {i \in Restorers : pc'[i] # pc[i] \/ loc'[i] # loc[i]}

\* Goroutine i is handed an empty page that is not the last of its listing.
EmptyPage(i) ==
    /\ pc[i] = "list"
    /\ pc'[i] = "object"
    /\ loc'[i].page = 0
    /\ loc'[i].more

\* The run is over: every goroutine has returned and released its slot,
\* main has passed wg.Wait and reported completion.
Finished ==
    /\ \A i \in Restorers : pc[i] = "done"
    /\ ch = 0
    /\ wg = 0
    /\ mainpc = "done"
    /\ completed = 1

\* The step brings the run nearer to its end.  What is left of the run is
\* the sum of MainRank, of Rank(i) over the goroutines and of five for each
\* object not yet listed (more than the steps one of them takes once it is
\* on a page).  A step is of main alone, which then advances, or of one
\* goroutine (main's launch of it included), whose part of the sum then
\* gets smaller while main does not go back.
Nearer ==
    \/ /\ Movers = {}
       /\ MainRank' < MainRank
       /\ store' = store
    \/ \E i \in Movers :
          /\ Movers = {i}
          /\ MainRank' <= MainRank
          /\ \/ RankAfter(i) + 5 * store'.objs < Rank(i) + 5 * store.objs
             \/ EmptyPage(i)

\* C20: once create has succeeded, for inputs of up to GateCapacity +
\* GateExtra paths, no state short of the finished run is stuck (a goroutine
\* waiting for a slot, or main waiting in wg.Wait, always has some step of
\* the program ahead of it), and every step but the fetch of an empty page
\* that is not the last brings the run nearer to its end.  Under Fairness,
\* which schedules the steps and ends every listing, every launched
\* goroutine therefore gets its slot and returns, and main passes wg.Wait
\* and reports completion.
C20_RunCompletes ==
    /\ [](mainpc \notin {"create", "fatal"} => (Finished \/ ENABLED Next))
    /\ [][Nearer]_vars

\* With more paths than slots, main has reported completion after a
\* goroutine waited at a full gate.
C20_Witness ==
    /\ Len(bucketPathsList) > GateCapacity
    /\ Finished

\* C21: in a run on one path, whose only restorer is the only writer of the
\* row after create, a path that is in failedPaths has not been appended to
\* processed_paths nor removed from pending_paths: the row is as create
\* inserted it.
C21_FailedNeverProcessed ==
    \A i \in Restorers :
        bucketPathsList[i] \in Range(failedPaths) => row = NewRow(bucketPathsList)

\* The part of C21 that holds: when the SELECT or the UPDATE of
\* updateProcessedPaths fails, the call has written nothing, and the failing
\* statement of any position leaves the row as it was.
C21_SelectUpdateFailureKeepsRow ==
    [][\A i \in Restorers :
          (pc[i] \in LedgerCallPcs /\ result'[i] = "err") =>
              /\ row' = row
              /\ pc[i] \in {"select", "update"} => row = NewRow(bucketPathsList)]_vars
====
